---- MODULE Spec2Model ----
(***************************************************************************)
(* Lazy<T> of src/src/lazy.rs: a reference-counted, memoizing thunk whose  *)
(* producer yields a value or a redirect to another thunk.                 *)
(*                                                                         *)
(* The heap holds the Rc<UnsafeCell<Inner<T>>> cells; a handle (Lazy<T>)   *)
(* is a rebindable reference to one cell.  Execution is single-threaded:   *)
(* `stack` is the call stack of force frames, and only the top frame       *)
(* takes steps.  A panic unwinds the whole stack and the program goes on   *)
(* (std::panic::catch_unwind at the outermost call).                       *)
(***************************************************************************)
EXTENDS Integers, Sequences, FiniteSets, TLC

\* ---------------------------------------------------------------- bounds
MaxCells == 3
MaxHandles == 2

CellIds == 1..MaxCells
HandleIds == 1..MaxHandles
Values == {7, 8}

VARIABLES
    cells,      \* heap: CellIds -> the Rc box (strong count and Inner<T>)
    rc,         \* the program's handles: HandleIds -> cell (0: no such handle)
    nextCell,   \* number of cells allocated so far
    stack,      \* call stack of force frames, innermost last
    call,       \* the outermost force/deref in progress or just finished
    invoked,    \* history: how often the producer created with a cell ran
    built,      \* history: how a cell was made ("producer" or "value")
    outcome,    \* history: what the producer of a cell did when it ran
    born        \* history: the cell a handle pointed at when it was made

hist == <<invoked, built, outcome, born>>
vars == <<cells, rc, nextCell, stack, call, invoked, built, outcome, born>>

\* ------------------------------------------------------------ data model
\* A producer (the boxed FnOnce): what it does when invoked.
\*   kind "Val"   : yields LazyResult::Value(v)
\*   kind "Fail"  : panics
\*   kind "Redir" : yields LazyResult::Redirect(t), t the captured handle
\*   kind "Force" : derefs a handle (the captured one, cap, or the shared
\*                  program handle sh) and yields the value read, value(*t)
\* cap is the cell the captured handle points at (0: none captured).
NoProducer == [kind |-> "None", v |-> 0, cap |-> 0, sh |-> 0]

Producer(kind, v, cap, sh) == [kind |-> kind, v |-> v, cap |-> cap, sh |-> sh]

\* enum Inner<T> inside its Rc box.
Inner(state, value, target, prod, strong) ==
    [state |-> state, value |-> value, target |-> target,
     prod |-> prod, strong |-> strong]

NoCell == Inner("None", 0, 0, NoProducer, 0)
FreedCell == Inner("Freed", 0, 0, NoProducer, 0)

Live(cs, c) == c \in CellIds /\ cs[c].state \notin {"None", "Freed"}

\* ------------------------------------------------------------- Rc<...>
\* Rc::clone: one more strong reference to cell c.
RcClone(cs, c) == [cs EXCEPT ![c].strong = @ + 1]

\* The handle an Inner value owns: the producer's captured handle or the
\* redirect target.  Dropping the Inner drops that handle.
OwnedHandle(cell) ==
    CASE cell.state = "Unevaluated" -> cell.prod.cap
      [] cell.state = "Redirect" -> cell.target
      [] OTHER -> 0

\* Drop of an Rc pointing at cell c (c = 0: nothing to drop): the strong
\* count goes down, and at zero the Inner is dropped with what it owns.
RECURSIVE RcDrop(_, _)
RcDrop(cs, c) ==
    IF c = 0 \/ ~Live(cs, c) THEN cs
    ELSE IF cs[c].strong > 1 THEN [cs EXCEPT ![c].strong = @ - 1]
    ELSE RcDrop([cs EXCEPT ![c] = FreedCell], OwnedHandle(cs[c]))

\* ------------------------------------------------------------ call stack
Frame(self, pc, prod) == [self |-> self, pc |-> pc, prod |-> prod]

Depth == Len(stack)
Top == stack[Depth]

\* The cell handle `self` of frame i points at: a program handle, or
\* (self = 0) the handle the enclosing frame's producer captured/returned.
FrameCell(stk, r, i) ==
    IF stk[i].self = 0 THEN stk[i - 1].prod.cap ELSE r[stk[i].self]

\* self.inner() of the running frame.
SelfCell == FrameCell(stack, rc, Depth)

Idle == stack = <<>>

\* The outermost call: the handle, the cell it pointed at when the call
\* began (c0) with that cell's state (s0), the result and the value read.
NoCall == [op |-> "none", h |-> 0, c0 |-> 0, s0 |-> "None", res |-> "idle", val |-> 0]

Call(op, h) ==
    [op |-> op, h |-> h, c0 |-> rc[h], s0 |-> cells[rc[h]].state,
     res |-> "running", val |-> 0]

\* What a producer did: yielded a value, yielded a redirect to cell `to`,
\* failed, or yielded a redirect whose target then failed to force.
NoOutcome == [kind |-> "None", v |-> 0, to |-> 0]
Yielded(v) == [kind |-> "Value", v |-> v, to |-> 0]
Redirected(to) == [kind |-> "Redirect", v |-> 0, to |-> to]
Failed == [kind |-> "Fail", v |-> 0, to |-> 0]
TargetFailed(to) == [kind |-> "TargetFailed", v |-> 0, to |-> to]


\* The lowest unused handle slot (0: none left).
FreeHandle ==
    IF \E h \in HandleIds : rc[h] = 0
    THEN CHOOSE h \in HandleIds : rc[h] = 0 /\ \A g \in HandleIds : rc[g] = 0 => h <= g
    ELSE 0

\* Unwinding after a panic drops the locals of every frame, innermost
\* first: the producer a frame took out of its cell, with its handle.
RECURSIVE Unwind(_, _)
Unwind(cs, stk) ==
    IF stk = <<>> THEN cs
    ELSE Unwind(RcDrop(cs, stk[Len(stk)].prod.cap), SubSeq(stk, 1, Len(stk) - 1))

\* Faulty variant: the rebinding of a handle local to the enclosing frame is lost.
RebindStackLost(stk, i, tc) == stk

\* Rebinding handle `self` of frame i to cell tc (*self.rc() = ...).
RebindStack(stk, i, tc) ==
    IF stk[i].self = 0 THEN [stk EXCEPT ![i - 1].prod.cap = tc] ELSE stk

RebindRc(r, stk, i, tc) ==
    IF stk[i].self = 0 THEN r ELSE [r EXCEPT ![stk[i].self] = tc]

\* Faulty variant: the Rc of t is copied into self without a clone, so the
\* drop of t takes away the reference self now holds.
LazyRedirectUncounted(cs, old, tc) == RcDrop(RcDrop(cs, old), tc)

\* Lazy::redirect(&self, t), self pointing at cell old and t at cell tc:
\* *self.rc() = t.rc().clone() drops self's old Rc; t is dropped on return.
LazyRedirect(cs, old, tc) == RcDrop(RcDrop(RcClone(cs, tc), old), tc)

\* Deref::deref after force returned: the match on *self.inner().
DerefResult(cs, r) ==
    IF Live(cs, r[call.h]) /\ cs[r[call.h]].state = "Evaluated"
    THEN [call EXCEPT !.res = "ok", !.val = cs[r[call.h]].value]
    ELSE [call EXCEPT !.res = "unreachable"]

\* The running frame returns; the outermost return completes the call.
Returned(cs, r) ==
    IF Depth > 1 THEN call
    ELSE IF call.op = "deref" THEN DerefResult(cs, r)
    ELSE [call EXCEPT !.res = "ok"]

Pop(stk) == SubSeq(stk, 1, Len(stk) - 1)

\* ------------------------------------------------------------------ Init
Init ==
    /\ cells = [c \in CellIds |-> NoCell]
    /\ rc = [h \in HandleIds |-> 0]
    /\ nextCell = 0
    /\ stack = <<>>
    /\ call = NoCall
    /\ invoked = [c \in CellIds |-> 0]
    /\ built = [c \in CellIds |-> "none"]
    /\ outcome = [c \in CellIds |-> NoOutcome]
    /\ born = [h \in HandleIds |-> 0]

\* ------------------------------------------------- the program's actions
\* Lazy::new(producer): a fresh Unevaluated cell and a handle to it.  The
\* producer may capture a handle to a live cell or (through a slot filled
\* after construction) to the new cell itself, or share a program handle.
New(kind, v, cap, sh) ==
    /\ Idle
    /\ nextCell < MaxCells
    /\ FreeHandle # 0
    /\ LET c == nextCell + 1
           h == FreeHandle
       IN /\ cap # 0 => (kind \in {"Redir", "Force"} /\ sh = 0 /\ (cap = c \/ Live(cells, cap)))
          /\ sh # 0 => (kind = "Force" /\ cap = 0 /\ (sh = h \/ rc[sh] # 0))
          /\ kind \in {"Redir", "Force"} => (cap # 0 \/ sh # 0)
          /\ v # 0 <=> kind = "Val"
          /\ cells' = LET made == [cells EXCEPT ![c] =
                                      Inner("Unevaluated", 0, 0, Producer(kind, v, cap, sh), 1)]
                      IN IF cap # 0 THEN RcClone(made, cap) ELSE made
          /\ rc' = [rc EXCEPT ![h] = c]
          /\ nextCell' = c
          /\ built' = [built EXCEPT ![c] = "producer"]
          /\ born' = [born EXCEPT ![h] = c]
    /\ call' = NoCall
    /\ UNCHANGED <<stack, invoked, outcome>>

\* Faulty variant: the value is wrapped in a producer instead of being stored.
EvaluatedLazily(v) ==
    /\ Idle
    /\ nextCell < MaxCells
    /\ FreeHandle # 0
    /\ cells' = [cells EXCEPT ![nextCell + 1] =
                    Inner("Unevaluated", 0, 0, Producer("Val", v, 0, 0), 1)]
    /\ rc' = [rc EXCEPT ![FreeHandle] = nextCell + 1]
    /\ nextCell' = nextCell + 1
    /\ built' = [built EXCEPT ![nextCell + 1] = "value"]
    /\ outcome' = [outcome EXCEPT ![nextCell + 1] = Yielded(v)]
    /\ born' = [born EXCEPT ![FreeHandle] = nextCell + 1]
    /\ call' = NoCall
    /\ UNCHANGED <<stack, invoked>>

\* Lazy::evaluated(val) / strict(val).
Evaluated(v) ==
    /\ Idle
    /\ nextCell < MaxCells
    /\ FreeHandle # 0
    /\ cells' = [cells EXCEPT ![nextCell + 1] = Inner("Evaluated", v, 0, NoProducer, 1)]
    /\ rc' = [rc EXCEPT ![FreeHandle] = nextCell + 1]
    /\ nextCell' = nextCell + 1
    /\ built' = [built EXCEPT ![nextCell + 1] = "value"]
    /\ outcome' = [outcome EXCEPT ![nextCell + 1] = Yielded(v)]
    /\ born' = [born EXCEPT ![FreeHandle] = nextCell + 1]
    /\ call' = NoCall
    /\ UNCHANGED <<stack, invoked>>

\* Faulty variant: the new handle copies the Rc without counting it.
CloneUncounted(h) ==
    /\ Idle
    /\ rc[h] # 0
    /\ FreeHandle # 0
    /\ rc' = [rc EXCEPT ![FreeHandle] = rc[h]]
    /\ born' = [born EXCEPT ![FreeHandle] = rc[h]]
    /\ call' = NoCall
    /\ UNCHANGED <<cells, nextCell, stack, invoked, built, outcome>>

\* Faulty variant: clone observes the thunk first; a pending producer that
\* yields a value runs and its value is cached.
CloneForcing(h) ==
    /\ Idle
    /\ rc[h] # 0
    /\ FreeHandle # 0
    /\ LET c == rc[h]
           runs == cells[c].state = "Unevaluated" /\ cells[c].prod.kind = "Val"
       IN /\ cells' = RcClone(IF runs
                              THEN [cells EXCEPT ![c].state = "Evaluated",
                                                 ![c].value = cells[c].prod.v,
                                                 ![c].prod = NoProducer]
                              ELSE cells, c)
          /\ invoked' = IF runs THEN [invoked EXCEPT ![c] = @ + 1] ELSE invoked
          /\ outcome' = IF runs THEN [outcome EXCEPT ![c] = Yielded(cells[c].prod.v)]
                        ELSE outcome
    /\ rc' = [rc EXCEPT ![FreeHandle] = rc[h]]
    /\ born' = [born EXCEPT ![FreeHandle] = rc[h]]
    /\ call' = NoCall
    /\ UNCHANGED <<nextCell, stack, built>>

\* Clone::clone: a new handle on the same cell.
Clone(h) ==
    /\ Idle
    /\ rc[h] # 0
    /\ FreeHandle # 0
    /\ cells' = RcClone(cells, rc[h])
    /\ rc' = [rc EXCEPT ![FreeHandle] = rc[h]]
    /\ born' = [born EXCEPT ![FreeHandle] = rc[h]]
    /\ call' = NoCall
    /\ UNCHANGED <<nextCell, stack, invoked, built, outcome>>

\* A handle goes out of scope.  A handle that a pending producer shares
\* stays alive through that share.
Drop(h) ==
    /\ Idle
    /\ rc[h] # 0
    /\ \A c \in CellIds : cells[c].prod.sh # h
    /\ cells' = RcDrop(cells, rc[h])
    /\ rc' = [rc EXCEPT ![h] = 0]
    /\ born' = [born EXCEPT ![h] = 0]
    /\ call' = NoCall
    /\ UNCHANGED <<nextCell, stack, invoked, built, outcome>>

\* The slot a pending producer reads its handle from is refilled with a
\* clone of program handle h (this is how two thunks come to name each
\* other); the handle it held is dropped.
Capture(c, h) ==
    /\ Idle
    /\ rc[h] # 0
    /\ Live(cells, c)
    /\ cells[c].state = "Unevaluated"
    /\ cells[c].prod.cap # 0
    /\ cells[c].prod.cap # rc[h]
    /\ cells' = RcDrop([RcClone(cells, rc[h]) EXCEPT ![c].prod.cap = rc[h]],
                       cells[c].prod.cap)
    /\ call' = NoCall
    /\ UNCHANGED <<rc, nextCell, stack, hist>>

\* The program calls h.force() or *h.
Force(h) ==
    /\ Idle
    /\ rc[h] # 0
    /\ stack' = <<Frame(h, "loop", NoProducer)>>
    /\ call' = Call("force", h)
    /\ UNCHANGED <<cells, rc, nextCell, hist>>

Deref(h) ==
    /\ Idle
    /\ rc[h] # 0
    /\ stack' = <<Frame(h, "loop", NoProducer)>>
    /\ call' = Call("deref", h)
    /\ UNCHANGED <<cells, rc, nextCell, hist>>

\* ------------------------------------------------- Lazy::force, by steps
AtLoop == ~Idle /\ Top.pc = "loop"

\* What a panic leaves behind of the producers that were running: the
\* frame that panics (mine) failed by itself, a producer waiting for its
\* deref fails with it, a frame waiting in t.force() saw its target fail.
Unwound(mine) ==
    [c \in CellIds |->
        IF c = mine THEN Failed
        ELSE IF \E i \in 1..Depth : FrameCell(stack, rc, i) = c /\ stack[i].pc = "yield"
        THEN Failed
        ELSE IF \E i \in 1..Depth : FrameCell(stack, rc, i) = c /\ stack[i].pc = "tforce"
        THEN TargetFailed(outcome[c].to)
        ELSE outcome[c]]

\* panic!: the stack unwinds to the outermost caller.
Panic(res, mine) ==
    /\ cells' = Unwind(cells, stack)
    /\ stack' = <<>>
    /\ call' = [call EXCEPT !.res = res]
    /\ outcome' = Unwound(mine)
    /\ UNCHANGED <<rc, nextCell, built, born>>

\* Evaluated(_) => return
ForceReturn ==
    /\ AtLoop
    /\ cells[SelfCell].state = "Evaluated"
    /\ stack' = Pop(stack)
    /\ call' = Returned(cells, rc)
    /\ UNCHANGED <<cells, rc, nextCell, hist>>

\* Faulty variant: a cell in EvaluationInProgress is taken for a forced one and
\* force returns.
ForceRecursiveReturns ==
    /\ AtLoop
    /\ cells[SelfCell].state = "Evaluating"
    /\ stack' = Pop(stack)
    /\ call' = Returned(cells, rc)
    /\ UNCHANGED <<cells, rc, nextCell, hist>>

\* Faulty variant: EvaluationInProgress is taken for a state to wait in; the
\* loop inspects the cell again.
ForceRecursiveWaits ==
    /\ AtLoop
    /\ cells[SelfCell].state = "Evaluating"
    /\ UNCHANGED vars

\* Faulty variant: the EvaluationInProgress arm does not panic and falls
\* through to the break.
ForceRecursiveBreaks ==
    /\ AtLoop
    /\ cells[SelfCell].state = "Evaluating"
    /\ stack' = [stack EXCEPT ![Depth].pc = "replace"]
    /\ UNCHANGED <<cells, rc, nextCell, call, hist>>

\* EvaluationInProgress => panic!("Lazy::force called recursively...")
ForceRecursive ==
    /\ AtLoop
    /\ cells[SelfCell].state = "Evaluating"
    /\ Panic("panic", 0)
    /\ UNCHANGED invoked

\* Redirect(ref t) => { self.redirect(t.clone()); continue }
ForceCollapse ==
    /\ AtLoop
    /\ cells[SelfCell].state = "Redirect"
    /\ LET tc == cells[SelfCell].target
       IN /\ cells' = LazyRedirect(RcClone(cells, tc), SelfCell, tc)
          /\ rc' = RebindRc(rc, stack, Depth, tc)
          /\ stack' = RebindStack(stack, Depth, tc)
    /\ UNCHANGED <<nextCell, call, hist>>

\* Unevaluated(_) => (); break: the inspection loop is left.
ForceBreak ==
    /\ AtLoop
    /\ cells[SelfCell].state = "Unevaluated"
    /\ stack' = [stack EXCEPT ![Depth].pc = "replace"]
    /\ UNCHANGED <<cells, rc, nextCell, call, hist>>

\* Faulty variant: the producer is taken without marking the cell
\* EvaluationInProgress.
ForceBeginNoMark ==
    /\ ~Idle
    /\ Top.pc = "replace"
    /\ stack' = [stack EXCEPT ![Depth].pc = "invoke",
                              ![Depth].prod = cells[SelfCell].prod]
    /\ UNCHANGED <<cells, rc, nextCell, call, hist>>

\* mem::replace(self.inner(), EvaluationInProgress) takes the Inner out:
\* Unevaluated(producer) goes on to the invocation.  Any other Inner is
\* the fallback branch, debug_unreachable!(): the Inner taken out is
\* dropped; a debug build panics there, and any other build has undefined
\* behaviour, of which the outcomes kept are the panic and a plain return.
ForceBegin ==
    /\ ~Idle
    /\ Top.pc = "replace"
    /\ IF cells[SelfCell].state = "Unevaluated"
       THEN /\ cells' = [cells EXCEPT ![SelfCell].state = "Evaluating",
                                      ![SelfCell].prod = NoProducer]
            /\ stack' = [stack EXCEPT ![Depth].pc = "invoke",
                                      ![Depth].prod = cells[SelfCell].prod]
            /\ UNCHANGED <<rc, nextCell, call, hist>>
       ELSE \E build \in {"debug", "other"} :
               LET swapped == RcDrop([cells EXCEPT ![SelfCell] =
                                         Inner("Evaluating", 0, 0, NoProducer, @.strong)],
                                     OwnedHandle(cells[SelfCell]))
               IN /\ cells' = IF build = "debug" THEN Unwind(swapped, stack) ELSE swapped
                  /\ stack' = IF build = "debug" THEN <<>> ELSE Pop(stack)
                  /\ call' = [call EXCEPT !.res = "fallback"]
                  /\ UNCHANGED <<rc, nextCell, hist>>

AtInvoke(kind) == ~Idle /\ Top.pc = "invoke" /\ Top.prod.kind = kind

\* Faulty variant: the value is handed back but never written; the cell is
\* left in EvaluationInProgress.
InvokeValueNoWrite ==
    /\ AtInvoke("Val")
    /\ invoked' = [invoked EXCEPT ![SelfCell] = @ + 1]
    /\ stack' = Pop(stack)
    /\ call' = Returned(cells, rc)
    /\ outcome' = [outcome EXCEPT ![SelfCell] = Yielded(Top.prod.v)]
    /\ UNCHANGED <<cells, rc, nextCell, built, born>>

\* Faulty variant: the value is handed back but not cached; the cell is
\* Unevaluated again, with its producer.
InvokeValueNoCache ==
    /\ AtInvoke("Val")
    /\ cells' = [cells EXCEPT ![SelfCell].state = "Unevaluated",
                              ![SelfCell].prod = Top.prod]
    /\ invoked' = [invoked EXCEPT ![SelfCell] = @ + 1]
    /\ stack' = Pop(stack)
    /\ call' = Returned(cells', rc)
    /\ outcome' = [outcome EXCEPT ![SelfCell] = Yielded(Top.prod.v)]
    /\ UNCHANGED <<rc, nextCell, built, born>>

\* producer.invoke() yields Value(x): *self.inner() = Evaluated(x)
InvokeValue ==
    /\ AtInvoke("Val")
    /\ cells' = [cells EXCEPT ![SelfCell].state = "Evaluated",
                              ![SelfCell].value = Top.prod.v]
    /\ invoked' = [invoked EXCEPT ![SelfCell] = @ + 1]
    /\ stack' = Pop(stack)
    /\ call' = Returned(cells', rc)
    /\ outcome' = [outcome EXCEPT ![SelfCell] = Yielded(Top.prod.v)]
    /\ UNCHANGED <<rc, nextCell, built, born>>

\* Faulty variant: the failure is rolled back; the producer is put back into
\* the cell, which is Unevaluated again.
InvokeFailRollback ==
    /\ AtInvoke("Fail")
    /\ invoked' = [invoked EXCEPT ![SelfCell] = @ + 1]
    /\ cells' = [Unwind(cells, Pop(stack)) EXCEPT ![SelfCell].state = "Unevaluated",
                                                  ![SelfCell].prod = Top.prod]
    /\ stack' = <<>>
    /\ call' = [call EXCEPT !.res = "panic"]
    /\ outcome' = Unwound(SelfCell)
    /\ UNCHANGED <<rc, nextCell, built, born>>

\* producer.invoke() panics.
InvokeFail ==
    /\ AtInvoke("Fail")
    /\ invoked' = [invoked EXCEPT ![SelfCell] = @ + 1]
    /\ Panic("panic", SelfCell)

\* Faulty variant: the Redirect is written into the cell before t.force().
InvokeRedirectEarlyWrite ==
    /\ AtInvoke("Redir")
    /\ invoked' = [invoked EXCEPT ![SelfCell] = @ + 1]
    /\ cells' = [RcClone(cells, Top.prod.cap) EXCEPT ![SelfCell].state = "Redirect",
                                                     ![SelfCell].target = Top.prod.cap]
    /\ stack' = Append([stack EXCEPT ![Depth].pc = "tforce"],
                       Frame(0, "loop", NoProducer))
    /\ outcome' = [outcome EXCEPT ![SelfCell] = Redirected(Top.prod.cap)]
    /\ UNCHANGED <<rc, nextCell, call, built, born>>

\* Faulty variant: t.force() is left out; the redirect is installed at once.
InvokeRedirectNoForce ==
    /\ AtInvoke("Redir")
    /\ invoked' = [invoked EXCEPT ![SelfCell] = @ + 1]
    /\ outcome' = [outcome EXCEPT ![SelfCell] = Redirected(Top.prod.cap)]
    /\ LET c == SelfCell
           tc == Top.prod.cap
       IN /\ cells' = LazyRedirect(
                          [RcClone(cells, tc) EXCEPT ![c].state = "Redirect",
                                                     ![c].target = tc],
                          c, tc)
          /\ rc' = RebindRc(rc, stack, Depth, tc)
          /\ stack' = Pop(RebindStack(stack, Depth, tc))
          /\ call' = Returned(cells', rc')
    /\ UNCHANGED <<nextCell, built, born>>

\* producer.invoke() yields Redirect(t): t.force() is called.
InvokeRedirect ==
    /\ AtInvoke("Redir")
    /\ invoked' = [invoked EXCEPT ![SelfCell] = @ + 1]
    /\ stack' = Append([stack EXCEPT ![Depth].pc = "tforce"],
                       Frame(0, "loop", NoProducer))
    /\ outcome' = [outcome EXCEPT ![SelfCell] = Redirected(Top.prod.cap)]
    /\ UNCHANGED <<cells, rc, nextCell, call, built, born>>

\* The producer forces a handle before it yields.
InvokeForce ==
    /\ AtInvoke("Force")
    /\ invoked' = [invoked EXCEPT ![SelfCell] = @ + 1]
    /\ stack' = Append([stack EXCEPT ![Depth].pc = "yield"],
                       Frame(Top.prod.sh, "loop", NoProducer))
    /\ UNCHANGED <<cells, rc, nextCell, call, built, outcome, born>>

\* The deref inside the producer reads the forced cell (a cell that is
\* not Evaluated there is deref's unreachable!()); the producer yields
\* Value(x): *self.inner() = Evaluated(x), and the consumed closure drops
\* the handle it captured.
ProducerYield ==
    /\ ~Idle
    /\ Top.pc = "yield"
    /\ LET read == IF Top.prod.sh # 0 THEN rc[Top.prod.sh] ELSE Top.prod.cap
       IN IF cells[read].state = "Evaluated"
          THEN /\ cells' = RcDrop([cells EXCEPT ![SelfCell].state = "Evaluated",
                                                ![SelfCell].value = cells[read].value],
                                  Top.prod.cap)
               /\ stack' = Pop(stack)
               /\ call' = Returned(cells', rc)
               /\ outcome' = [outcome EXCEPT ![SelfCell] = Yielded(cells[read].value)]
               /\ UNCHANGED <<rc, nextCell, built, born>>
          ELSE Panic("unreachable", SelfCell)
    /\ UNCHANGED invoked

\* Faulty variant: the Redirect is not written into the cell; only the forcing
\* handle is rebound.
InstallRedirectNoWrite ==
    /\ ~Idle
    /\ Top.pc = "tforce"
    /\ LET c == SelfCell
           tc == Top.prod.cap
       IN /\ cells' = RcDrop(cells, c)
          /\ rc' = RebindRc(rc, stack, Depth, tc)
          /\ stack' = Pop(RebindStack(stack, Depth, tc))
          /\ call' = Returned(cells', rc')
    /\ UNCHANGED <<nextCell, hist>>

\* Faulty variant: self.redirect(t) is left out; t is dropped.
InstallRedirectNoRebind ==
    /\ ~Idle
    /\ Top.pc = "tforce"
    /\ cells' = [cells EXCEPT ![SelfCell].state = "Redirect",
                              ![SelfCell].target = Top.prod.cap]
    /\ stack' = Pop(stack)
    /\ call' = Returned(cells', rc)
    /\ UNCHANGED <<rc, nextCell, hist>>

\* Faulty variant: the Redirect stores a clone of t taken before t.force(),
\* which still points at the cell the producer named.
InstallRedirectStale ==
    /\ ~Idle
    /\ Top.pc = "tforce"
    /\ LET c == SelfCell
           tc == Top.prod.cap
           stale == outcome[SelfCell].to
       IN /\ cells' = LazyRedirect(
                          [RcClone(cells, stale) EXCEPT ![c].state = "Redirect",
                                                        ![c].target = stale],
                          c, tc)
          /\ rc' = RebindRc(rc, stack, Depth, tc)
          /\ stack' = Pop(RebindStack(stack, Depth, tc))
          /\ call' = Returned(cells', rc')
    /\ UNCHANGED <<nextCell, hist>>

\* t.force() returned: *self.inner() = Redirect(t.clone()); self.redirect(t)
InstallRedirect ==
    /\ ~Idle
    /\ Top.pc = "tforce"
    /\ LET c == SelfCell
           tc == Top.prod.cap
       IN /\ cells' = LazyRedirect(
                          [RcClone(cells, tc) EXCEPT ![c].state = "Redirect",
                                                     ![c].target = tc],
                          c, tc)
          /\ rc' = RebindRc(rc, stack, Depth, tc)
          /\ stack' = Pop(RebindStack(stack, Depth, tc))
          /\ call' = Returned(cells', rc')
    /\ UNCHANGED <<nextCell, hist>>

Kinds == {"Val", "Fail", "Redir", "Force"}

Next ==
    \/ \E kind \in Kinds, v \in Values \cup {0}, cap \in 0..MaxCells, sh \in 0..MaxHandles :
          New(kind, v, cap, sh)
    \/ \E v \in Values : Evaluated(v)
    \/ \E h \in HandleIds : Clone(h)
    \/ \E h \in HandleIds : Drop(h)
    \/ \E c \in CellIds, h \in HandleIds : Capture(c, h)
    \/ \E h \in HandleIds : Force(h)
    \/ \E h \in HandleIds : Deref(h)
    \/ ForceReturn
    \/ ForceRecursive
    \/ ForceCollapse
    \/ ForceBreak
    \/ ForceBegin
    \/ InvokeValue
    \/ InvokeFail
    \/ InvokeRedirect
    \/ InvokeForce
    \/ ProducerYield
    \/ InstallRedirect

Spec == Init /\ [][Next]_vars

\* One step of the force call that is running.
ForceStep ==
    \/ ForceReturn
    \/ ForceRecursive
    \/ ForceCollapse
    \/ ForceBreak
    \/ ForceBegin
    \/ InvokeValue
    \/ InvokeFail
    \/ InvokeRedirect
    \/ InvokeForce
    \/ ProducerYield
    \/ InstallRedirect

\* force is synchronous and single-threaded: a call that has begun keeps
\* running, and every producer of the model runs to its end.
FairSpec == Spec /\ WF_vars(ForceStep)

\* ------------------------------------------------- reading the history
StateOf(c) == cells[c].state

\* The cell at the end of the redirects the producers yielded, from c.
RECURSIVE EndCellFrom(_, _)
EndCellFrom(c, n) ==
    IF n = 0 \/ outcome[c].kind # "Redirect" THEN c
    ELSE EndCellFrom(outcome[c].to, n - 1)

EndCell(c) == EndCellFrom(c, MaxCells)

\* The cells on the way there, c and the end included.
RECURSIVE ChainFrom(_, _)
ChainFrom(c, n) ==
    IF n = 0 \/ outcome[c].kind # "Redirect" THEN {c}
    ELSE {c} \cup ChainFrom(outcome[c].to, n - 1)

Chain(c) == ChainFrom(c, MaxCells)

\* The value yielded by the producer at the end of the chain.
EndValue(c) == outcome[EndCell(c)].v

\* The value a handle on cell c reads without running anything: the
\* cached value, or the cached value one redirect away (0: none yet).
Resolved(c) ==
    IF StateOf(c) = "Evaluated" THEN cells[c].value
    ELSE IF StateOf(c) = "Redirect" /\ StateOf(cells[c].target) = "Evaluated"
    THEN cells[cells[c].target].value
    ELSE 0

\* Program handles made on the same cell (a handle and its clones).
Clones(h, g) == h # g /\ rc[h] # 0 /\ rc[g] # 0 /\ born[h] = born[g]

\* A force frame at its inspection loop on a cell that an enclosing,
\* still active frame is evaluating.
Reentrant ==
    /\ Depth >= 2
    /\ Top.pc = "loop"
    /\ \E j \in 1..(Depth - 1) : FrameCell(stack, rc, j) = SelfCell

TypeOK ==
    /\ nextCell \in 0..MaxCells
    /\ \A h \in HandleIds : rc[h] \in 0..nextCell
    /\ \A c \in CellIds :
          cells[c].state \in {"None", "Freed", "Unevaluated", "Evaluating",
                              "Evaluated", "Redirect"}


\* ================================================================ claims

\* C1 (memoization): no producer is ever invoked more than once, and when
\* a force or deref of a thunk built from a producer has returned
\* normally, that producer has been invoked exactly once.
Memoization ==
    /\ \A c \in CellIds : invoked[c] <= 1
    /\ (call.res = "ok" /\ built[call.c0] = "producer") => invoked[call.c0] = 1

\* A repeated observation: the deref found the cell already forced.
MemoizationWitness ==
    /\ call.res = "ok"
    /\ call.op = "deref"
    /\ built[call.c0] = "producer"
    /\ call.s0 = "Evaluated"
    /\ invoked[call.c0] = 1

\* C2 (force postcondition): when force has returned normally on a handle,
\* the handle points at an Evaluated cell: for the outermost call, for
\* t.force() inside force and for the deref inside a producer; deref
\* never reaches its unreachable!() branch.
ForcePostcondition ==
    /\ call.res # "unreachable"
    /\ call.res = "ok" => StateOf(rc[call.h]) = "Evaluated"
    /\ (~Idle /\ Top.pc = "tforce") => StateOf(Top.prod.cap) = "Evaluated"
    /\ (~Idle /\ Top.pc = "yield" /\ Top.prod.sh = 0) => StateOf(Top.prod.cap) = "Evaluated"
    /\ (~Idle /\ Top.pc = "yield" /\ Top.prod.sh # 0) => StateOf(rc[Top.prod.sh]) = "Evaluated"

\* force returned on a handle that it rebound past a Redirect cell.
ForcePostconditionWitness ==
    /\ call.res = "ok"
    /\ Live(cells, call.c0)
    /\ StateOf(call.c0) = "Redirect"
    /\ rc[call.h] # call.c0
    /\ StateOf(rc[call.h]) = "Evaluated"


\* C3 (clone sharing): once one of two clones points at an Evaluated cell,
\* the other reads the same value, directly or one redirect away; and a
\* call on the other clone invokes no producer, does not fail, and a
\* deref returns that same value.
CloneSharing ==
    [][ /\ \A h, g \in HandleIds :
              (Clones(h, g) /\ StateOf(rc[g]) = "Evaluated")'
                 => (Resolved(rc[h]) = cells[rc[g]].value)'
        /\ \A g \in HandleIds :
              (call.res = "running" /\ Clones(call.h, g) /\ StateOf(rc[g]) = "Evaluated")
                 => /\ invoked' = invoked
                    /\ call'.res \in {"running", "ok"}
                    /\ (call'.res = "ok" /\ call.op = "deref")
                          => call'.val = cells[rc[g]].value
      ]_vars

\* A deref through a clone that still pointed at the Redirect cell, after
\* the other clone had been forced and rebound to the target cell.
CloneSharingWitness ==
    /\ call.res = "ok"
    /\ call.op = "deref"
    /\ call.s0 = "Redirect"
    /\ \E g \in HandleIds :
          /\ Clones(call.h, g)
          /\ born[g] = call.c0
          /\ rc[g] # born[g]
          /\ call.val = cells[rc[g]].value

\* C4 (redirect correctness): when a call on a thunk has returned, every
\* producer on the chain of redirects from its cell has run exactly once,
\* and a deref returned the value yielded at the end of that chain, for
\* the cell the handle pointed at and for the cell the handle was made on.
RedirectCorrectness ==
    call.res = "ok" =>
        /\ \A c \in Chain(call.c0) \cup Chain(born[call.h]) :
              built[c] = "producer" => invoked[c] = 1
        /\ call.op = "deref" =>
              /\ call.val = EndValue(call.c0)
              /\ call.val = EndValue(born[call.h])

\* The second thunk was observed first, then the redirecting thunk: the
\* deref of the first returned the second's value, whose producer ran once.
RedirectCorrectnessWitness ==
    /\ call.res = "ok"
    /\ call.op = "deref"
    /\ call.s0 = "Unevaluated"
    /\ outcome[call.c0].kind = "Redirect"
    /\ built[outcome[call.c0].to] = "producer"
    /\ outcome[outcome[call.c0].to].kind = "Value"
    /\ call.val = outcome[outcome[call.c0].to].v
    /\ invoked[outcome[call.c0].to] = 1
    /\ \E g \in HandleIds : g # call.h /\ rc[g] = outcome[call.c0].to

\* C5 (re-entrant forcing): a force that reaches the cell an enclosing
\* frame is evaluating finds it in EvaluationInProgress, and its only
\* step is the panic that unwinds the call: it returns no value.
ReentrantForcePanics ==
    [][ Reentrant => /\ StateOf(SelfCell) = "Evaluating"
                     /\ stack' = <<>>
                     /\ call'.res = "panic"
                     /\ call'.val = 0
      ]_vars

\* The producer of the outermost cell redirected to a second thunk, and
\* forcing that one came back to the outermost cell.
ReentrantForcePanicsWitness ==
    /\ Reentrant
    /\ Depth >= 3
    /\ stack[1].pc = "tforce"
    /\ FrameCell(stack, rc, 1) = SelfCell

\* C6 (producer failure poisons the cell): a cell whose producer failed is
\* in EvaluationInProgress until it is freed, its producer is not invoked
\* again, and a call through a handle on it panics at its first step.
ProducerFailurePoisons ==
    [][ /\ \A c \in CellIds :
              outcome'[c].kind = "Fail"
                 => /\ cells'[c].state \in {"Evaluating", "Freed"}
                    /\ invoked'[c] = 1
        /\ \A c \in CellIds :
              outcome[c].kind = "Fail"
                 => /\ outcome'[c] = outcome[c]
                    /\ invoked'[c] = invoked[c]
        /\ (call.res = "running" /\ outcome[call.c0].kind = "Fail")
              => /\ call'.res = "panic"
                 /\ call'.val = 0
      ]_vars

\* A deref through a handle on a cell whose producer had failed earlier.
ProducerFailurePoisonsWitness ==
    /\ call.res = "panic"
    /\ call.op = "deref"
    /\ call.s0 = "Evaluating"
    /\ outcome[call.c0].kind = "Fail"
    /\ StateOf(call.c0) = "Evaluating"
    /\ \E g \in HandleIds : g # call.h /\ rc[g] = call.c0

\* C7 (redirect target failure): when forcing the target of a yielded
\* redirect fails (the call ends while t.force() is still running), the
\* call ends in the panic, which leaves the redirecting cell in
\* EvaluationInProgress (never Redirect or Evaluated) until it is freed,
\* and a later call through a handle on it panics.
RedirectTargetFailure ==
    [][ /\ \A i \in 1..(Depth - 1) :
              (stack[i].pc = "tforce" /\ stack' = <<>>)
                 => /\ call'.res = "panic"
                    /\ cells'[FrameCell(stack, rc, i)].state \in {"Evaluating", "Freed"}
                    /\ outcome'[FrameCell(stack, rc, i)].kind = "TargetFailed"
        /\ \A c \in CellIds :
              outcome'[c].kind = "TargetFailed"
                 => cells'[c].state \in {"Evaluating", "Freed"}
        /\ \A c \in CellIds :
              outcome[c].kind = "TargetFailed" => outcome'[c] = outcome[c]
        /\ (call.res = "running" /\ outcome[call.c0].kind = "TargetFailed")
              => /\ call'.res = "panic"
                 /\ call'.val = 0
      ]_vars

\* A later deref of the redirecting thunk, after its target failed.
RedirectTargetFailureWitness ==
    /\ call.res = "panic"
    /\ call.op = "deref"
    /\ call.s0 = "Evaluating"
    /\ outcome[call.c0].kind = "TargetFailed"
    /\ outcome[outcome[call.c0].to].kind = "Fail"

\* C8 (chain collapsing): when a call on a handle has returned, the handle
\* points at the Evaluated cell at the end of the chain of redirects from
\* the cell it started on, and every producer on the chain has run
\* exactly once; a call that starts on an Evaluated cell rebinds no
\* handle, invokes no producer and returns.
ChainCollapsing ==
    [][ /\ (call.res = "ok")'
              => /\ (rc[call.h] = EndCell(call.c0))'
                 /\ (StateOf(rc[call.h]) = "Evaluated")'
                 /\ (\A c \in Chain(call.c0) : built[c] = "producer" => invoked[c] = 1)'
        /\ (call.res = "running" /\ call.s0 = "Evaluated")
              => /\ rc' = rc
                 /\ invoked' = invoked
                 /\ call'.res = "ok"
      ]_vars

\* The second observation through a handle made on the head of a chain
\* of two redirects, which the first observation collapsed.
ChainCollapsingWitness ==
    /\ call.res = "ok"
    /\ call.op = "deref"
    /\ call.s0 = "Evaluated"
    /\ outcome[born[call.h]].kind = "Redirect"
    /\ outcome[outcome[born[call.h]].to].kind = "Redirect"
    /\ rc[call.h] = EndCell(born[call.h])
    /\ Cardinality(Chain(born[call.h])) = 3
    /\ \A c \in Chain(born[call.h]) : invoked[c] = 1

\* C9 (idempotent observation): a handle that points at an Evaluated cell
\* (a program handle, or the handle a running producer captured) is never
\* rebound, and that cell keeps its state and value as long as the handle
\* lives; a deref that starts on an Evaluated cell returns that
\* cell's value and leaves the handle on it.
IdempotentObservation ==
    [][ /\ \A h \in HandleIds :
              (rc[h] # 0 /\ StateOf(rc[h]) = "Evaluated" /\ rc'[h] # 0)
                 => /\ rc'[h] = rc[h]
                    /\ cells'[rc[h]].state = "Evaluated"
                    /\ cells'[rc[h]].value = cells[rc[h]].value
        /\ \A i \in 1..Depth :
              (stack[i].prod.cap # 0 /\ StateOf(stack[i].prod.cap) = "Evaluated"
                 /\ Len(stack') >= i)
                 => /\ stack'[i].prod.cap = stack[i].prod.cap
                    /\ cells'[stack[i].prod.cap].state = "Evaluated"
                    /\ cells'[stack[i].prod.cap].value = cells[stack[i].prod.cap].value
        /\ (call.res = "running" /\ call.s0 = "Evaluated" /\ call.op = "deref")
              => /\ call'.res = "ok"
                 /\ call'.val = cells[call.c0].value
                 /\ rc'[call.h] = call.c0
      ]_vars

\* A deref through a handle whose cell was forced to a value before,
\* while a second handle shares the cell.
IdempotentObservationWitness ==
    /\ call.res = "ok"
    /\ call.op = "deref"
    /\ call.s0 = "Evaluated"
    /\ built[call.c0] = "producer"
    /\ call.val = cells[call.c0].value
    /\ call.val \in Values
    /\ \E g \in HandleIds : g # call.h /\ rc[g] = call.c0

\* C10 (eager equivalence): a cell built from a value v is Evaluated(v)
\* from its creation until it is freed and no producer runs for it; a
\* force or deref that starts on it returns at once, a deref with v, and
\* changes no cell, no handle and no invocation count.
EagerEquivalence ==
    [][ /\ \A c \in CellIds :
              built'[c] = "value"
                 => /\ cells'[c].state \in {"Evaluated", "Freed"}
                    /\ cells'[c].state = "Evaluated" => cells'[c].value = outcome'[c].v
                    /\ outcome'[c].v \in Values
                    /\ invoked'[c] = 0
        /\ (call.res = "running" /\ built[call.c0] = "value")
              => /\ cells' = cells
                 /\ rc' = rc
                 /\ invoked' = invoked
                 /\ call'.res = "ok"
                 /\ call.op = "deref" => call'.val = outcome[call.c0].v
      ]_vars

\* A deref of a thunk built with Lazy::evaluated returned its value.
EagerEquivalenceWitness ==
    /\ call.res = "ok"
    /\ call.op = "deref"
    /\ built[call.c0] = "value"
    /\ call.val = outcome[call.c0].v
    /\ invoked = [c \in CellIds |-> 0]

\* C11 (monotonic cell state machine): every state change of a live cell is
\* Unevaluated to EvaluationInProgress, EvaluationInProgress to Evaluated or
\* EvaluationInProgress to Redirect; an Evaluated or Redirect cell keeps its
\* state, value and target until it is freed, its producer (if it had
\* one) having run exactly once; a freed cell stays freed.
MonotonicCellStates ==
    [][ \A c \in CellIds :
           /\ (Live(cells, c) /\ Live(cells', c) /\ cells'[c].state # cells[c].state)
                 => <<cells[c].state, cells'[c].state>> \in
                       {<<"Unevaluated", "Evaluating">>,
                        <<"Evaluating", "Evaluated">>,
                        <<"Evaluating", "Redirect">>}
           /\ (cells[c].state \in {"Evaluated", "Redirect"} /\ Live(cells', c))
                 => /\ cells'[c].state = cells[c].state
                    /\ cells'[c].value = cells[c].value
                    /\ cells'[c].target = cells[c].target
           /\ (cells'[c].state \in {"Evaluated", "Redirect"} /\ built'[c] = "producer")
                 => invoked'[c] = 1
           /\ cells[c].state = "Freed" => cells'[c].state = "Freed"
      ]_vars

\* All three changes have happened: one cell went on to Redirect, one to
\* Evaluated, and one stays in EvaluationInProgress after its producer failed.
MonotonicCellStatesWitness ==
    \E c, d, e \in CellIds :
        /\ StateOf(c) = "Redirect" /\ invoked[c] = 1
        /\ StateOf(d) = "Evaluated" /\ built[d] = "producer" /\ invoked[d] = 1
        /\ StateOf(e) = "Evaluating" /\ outcome[e].kind = "Fail" /\ Idle

\* The cell a stored redirect resolves to: the targets followed from c.
RECURSIVE TargetEndFrom(_, _)
TargetEndFrom(c, n) ==
    IF n = 0 \/ ~Live(cells, c) \/ cells[c].state # "Redirect" THEN c
    ELSE TargetEndFrom(cells[c].target, n - 1)

TargetEnd(c) == TargetEndFrom(c, MaxCells)

\* C12 (redirect targets are forced before installation): in every state,
\* from the one in which the Redirect is written on, the target of a
\* Redirect cell resolves to a live cell that is neither Unevaluated nor
\* EvaluationInProgress; and when t.force() has returned and the Redirect
\* is about to be written, t already resolves to such a cell.
RedirectTargetsForced ==
    /\ \A c \in CellIds :
          StateOf(c) = "Redirect"
             => /\ Live(cells, cells[c].target)
                /\ Live(cells, TargetEnd(c))
                /\ StateOf(TargetEnd(c)) \notin {"Unevaluated", "Evaluating", "Redirect"}
    /\ (~Idle /\ Top.pc = "tforce")
          => /\ Live(cells, TargetEnd(Top.prod.cap))
             /\ StateOf(TargetEnd(Top.prod.cap)) \notin
                    {"Unevaluated", "Evaluating", "Redirect"}

\* A call on an Unevaluated thunk left its cell a Redirect to a cell that
\* the call itself forced by running that cell's producer.
RedirectTargetsForcedWitness ==
    /\ call.res = "ok"
    /\ call.s0 = "Unevaluated"
    /\ Live(cells, call.c0)
    /\ StateOf(call.c0) = "Redirect"
    /\ built[cells[call.c0].target] = "producer"
    /\ invoked[cells[call.c0].target] = 1
    /\ StateOf(cells[call.c0].target) = "Evaluated"

\* A force frame that is evaluating cell c: it has taken the producer out
\* and has not returned yet.
Evaluator(i, c) ==
    /\ i \in 1..Depth
    /\ stack[i].pc \in {"invoke", "tforce", "yield"}
    /\ FrameCell(stack, rc, i) = c

\* An evaluation of cell c was ended by a panic: its producer's own, the
\* one of its redirect target, or one that unwound through its frame.
Poisoned(c) == outcome[c].kind \in {"Fail", "TargetFailed"}

InnersUnchanged ==
    \A c \in CellIds :
        Live(cells, c) => /\ cells'[c].state = cells[c].state
                          /\ cells'[c].value = cells[c].value
                          /\ cells'[c].target = cells[c].target
                          /\ cells'[c].prod = cells[c].prod

\* C14 (only force evaluates): a step that constructs a thunk from a
\* producer makes one new Unevaluated cell holding that producer, and a
\* step that clones a handle makes a handle on the cell of the handle it
\* was cloned from, counted in that cell's strong count; neither invokes a
\* producer, starts a force, or changes the Inner of an existing cell or
\* the cell of an existing handle.
OnlyForceEvaluates ==
    [][ /\ (Idle /\ nextCell' # nextCell /\ built'[nextCell'] = "producer")
              => /\ invoked' = invoked
                 /\ outcome' = outcome
                 /\ stack' = <<>>
                 /\ InnersUnchanged
                 /\ cells'[nextCell'].state = "Unevaluated"
                 /\ cells'[nextCell'].prod.kind \in Kinds
                 /\ \A h \in HandleIds : rc[h] # 0 => rc'[h] = rc[h]
        /\ \A g \in HandleIds :
              (Idle /\ nextCell' = nextCell /\ rc[g] = 0 /\ rc'[g] # 0)
                 => /\ invoked' = invoked
                    /\ outcome' = outcome
                    /\ stack' = <<>>
                    /\ InnersUnchanged
                    /\ \E h \in HandleIds : rc[h] # 0 /\ rc'[g] = rc[h]
                    /\ cells'[rc'[g]].strong = cells[rc'[g]].strong + 1
                    /\ \A h \in HandleIds : rc[h] # 0 => rc'[h] = rc[h]
      ]_vars

\* A thunk was constructed from a producer and cloned: two handles on one
\* Unevaluated cell, and no producer has run.
OnlyForceEvaluatesWitness ==
    /\ Idle
    /\ call = NoCall
    /\ \E h, g \in HandleIds :
          /\ h # g
          /\ rc[h] # 0
          /\ rc[g] = rc[h]
          /\ StateOf(rc[h]) = "Unevaluated"
          /\ cells[rc[h]].prod.kind = "Val"
          /\ cells[rc[h]].strong = 2
    /\ \A c \in CellIds : invoked[c] = 0

\* C15 (force always terminates): every force or deref that has begun
\* eventually returns or ends in the panic; it neither runs forever nor
\* reaches a state without a next step, whatever the producers of the
\* thunks do among yielding a value, failing, forcing or redirecting to
\* another thunk, cycles of redirects included.
ForceTerminates ==
    (call.res = "running") ~> (call.res \in {"ok", "panic"})

\* Two thunks redirected to each other: forcing one ran both producers and
\* ended in the panic, each cell having seen its redirect target fail.
ForceTerminatesWitness ==
    /\ call.res = "panic"
    /\ Idle
    /\ \E a, b \in CellIds :
          /\ a # b
          /\ outcome[a] = TargetFailed(b)
          /\ outcome[b] = TargetFailed(a)
          /\ invoked[a] = 1
          /\ invoked[b] = 1

\* The handles that point at cell c: the program's handles and clones,
\* the targets stored in live Redirect cells, the handles captured by the
\* producers of live Unevaluated cells, and the handles held by running
\* force frames (the producer a frame took out, or the t it returned).
Handles(c) ==
    Cardinality({h \in HandleIds : rc[h] = c})
    + Cardinality({d \in CellIds : Live(cells, d) /\ OwnedHandle(cells[d]) = c})
    + Cardinality({i \in 1..Depth : stack[i].prod.cap = c})

\* C16 (shared-ownership lifecycle): the strong count of a live cell is the
\* number of handles pointing at it and is positive, so a cell is freed
\* only when no handle points at it any more; no handle of any kind
\* points at a freed or unallocated cell, also right after a collapsing
\* rebind dropped a handle's reference to the Redirect cell it was on.
SharedOwnership ==
    /\ \A c \in CellIds :
          IF Live(cells, c)
          THEN cells[c].strong = Handles(c) /\ Handles(c) > 0
          ELSE Handles(c) = 0
    /\ \A h \in HandleIds : rc[h] # 0 => Live(cells, rc[h])
    /\ \A i \in 1..Depth : Live(cells, FrameCell(stack, rc, i))
    /\ (call.res = "ok") => Live(cells, rc[call.h])

\* The last handle on a Redirect cell was rebound by a collapsing force:
\* the Redirect cell is freed, and the target it pointed at lives on with
\* the rebound handle as one of its owners.
SharedOwnershipWitness ==
    /\ call.res = "ok"
    /\ call.s0 = "Redirect"
    /\ StateOf(call.c0) = "Freed"
    /\ rc[call.h] # call.c0
    /\ Live(cells, rc[call.h])
    /\ cells[rc[call.h]].strong = 1

\* C17 (single writer per cell): at every nesting of force calls a cell is
\* being evaluated by at most one active frame; a step that changes the
\* Inner of a cell in EvaluationInProgress is a step of the running frame,
\* which is the frame that took the producer out of that cell; and a
\* nested force that reaches a cell under evaluation panics and leaves
\* the Inner of that cell as it is, as long as the cell lives.
SingleWriter ==
    [][ /\ (\A c \in CellIds :
               Cardinality({i \in 1..Depth : Evaluator(i, c)}) <= 1)'
        /\ \A c \in CellIds :
              (StateOf(c) = "Evaluating" /\ Live(cells', c)
                 /\ <<cells'[c].state, cells'[c].value, cells'[c].target>>
                       # <<cells[c].state, cells[c].value, cells[c].target>>)
                 => /\ Evaluator(Depth, c)
                    /\ Len(stack') = Depth - 1
        /\ Reentrant
              => /\ call'.res = "panic"
                 /\ \A c \in CellIds :
                       (Live(cells', c) /\ \E i \in 1..Depth : FrameCell(stack, rc, i) = c)
                          => /\ cells'[c].state = cells[c].state
                             /\ cells'[c].value = cells[c].value
                             /\ cells'[c].target = cells[c].target
      ]_vars

\* A producer yielded a redirect to its own thunk: the nested t.force()
\* reached the cell under evaluation and panicked, and the cell is still
\* in EvaluationInProgress, its producer having run once.
SingleWriterWitness ==
    /\ call.res = "panic"
    /\ \E c \in CellIds :
          /\ outcome[c] = TargetFailed(c)
          /\ StateOf(c) = "Evaluating"
          /\ invoked[c] = 1

\* C18 (stored redirect chains have length one): in every state the
\* handle stored in a Redirect cell points directly at a live Evaluated
\* cell; so a force frame that finds its cell a Redirect rebinds its
\* handle once, to an Evaluated cell, and its next inspection returns.
StoredRedirectsDirect ==
    [][ /\ (\A c \in CellIds :
               StateOf(c) = "Redirect"
                  => /\ Live(cells, cells[c].target)
                     /\ StateOf(cells[c].target) = "Evaluated")'
        /\ (AtLoop /\ StateOf(SelfCell) = "Redirect")
              => /\ Len(stack') = Depth
                 /\ stack'[Depth].pc = "loop"
                 /\ FrameCell(stack', rc', Depth) = cells[SelfCell].target
                 /\ cells'[FrameCell(stack', rc', Depth)].state = "Evaluated"
        /\ (AtLoop /\ StateOf(SelfCell) = "Evaluated")
              => Len(stack') = Depth - 1
      ]_vars

\* The producer of a cell named a thunk that redirected further: the
\* Redirect stored in the cell points past it, directly at the Evaluated
\* cell at the end.
StoredRedirectsDirectWitness ==
    \E c \in CellIds :
        /\ StateOf(c) = "Redirect"
        /\ outcome[c].kind = "Redirect"
        /\ outcome[outcome[c].to].kind = "Redirect"
        /\ cells[c].target # outcome[c].to
        /\ cells[c].target = EndCell(c)
        /\ StateOf(cells[c].target) = "Evaluated"

\* C19 (the fallback branch of force is unreachable): a frame that has
\* left its inspection loop is the running frame and its cell is
\* Unevaluated with its producer, so the mem::replace takes out
\* Unevaluated(producer); every frame past the replace holds the producer
\* it took out, at every nesting of force calls; and no call ends in the
\* branch marked debug_unreachable.
FallbackUnreachable ==
    /\ call.res # "fallback"
    /\ \A i \in 1..Depth :
          /\ stack[i].pc = "replace"
                => /\ i = Depth
                   /\ StateOf(FrameCell(stack, rc, i)) = "Unevaluated"
                   /\ cells[FrameCell(stack, rc, i)].prod.kind \in Kinds
          /\ stack[i].pc \in {"invoke", "tforce", "yield"}
                => /\ stack[i].prod.kind \in Kinds
                   /\ StateOf(FrameCell(stack, rc, i)) = "Evaluating"

\* A force nested in a producer has swapped EvaluationInProgress into its
\* own cell and holds the producer it took out, while the enclosing frames
\* hold theirs.
FallbackUnreachableWitness ==
    /\ Depth >= 3
    /\ Top.pc = "invoke"
    /\ Top.prod.kind \in Kinds
    /\ StateOf(SelfCell) = "Evaluating"
    /\ \A i \in 1..(Depth - 1) : stack[i].prod.kind \in Kinds

====
